---- MODULE Spec2Model ----
(***************************************************************************)
(* A model of the NFSv3 target layer (nfs/target.go): the path resolver,   *)
(* the facade methods built on it, the READDIRPLUS pager and the recursive *)
(* remover, run against a small NFSv3 server namespace.                    *)
(*                                                                         *)
(* Strings are sequences of one-character strings, so that strings.Split   *)
(* and path.Split are computed and not assumed.  A file handle is a byte   *)
(* string that may be nil (a Go nil slice).  Every facade method is one    *)
(* action: the whole sequence of RPCs it sends, with the server's replies; *)
(* the loop of ReadDirPlusByFh is also taken one request at a time.        *)
(* The server always supplies the post-op attributes of a LOOKUP reply.    *)
(***************************************************************************)
EXTENDS Integers, Sequences, FiniteSets, TLC

\* ------------------------------------------------------------------ bounds
\* Number of object slots (inodes) the server has.
MaxObj == 9
\* Number of facade calls made in one behaviour.
MaxOps == 2

\* ------------------------------------------------------- program constants
\* fattr.FileMode&0o170000 == 0o120000
S_IFLNK == 40960
\* The DirCount and MaxCount of every READDIRPLUS request.
DirCount == 512
MaxCount == 4096

VARIABLES
    v,       \* the Target: [fh, auth, dirPath, fsinfo]
    ns,      \* the server namespace: object id -> [type, ents, target, parent]
    last,    \* the facade call made last, with what it returned and sent
    prev,    \* the facade call made before that
    lastNs,  \* the namespace the last call found
    prevNs,  \* the namespace the call before it found
    nops,    \* number of facade calls made
    srv,     \* how the server answers READDIRPLUS: [page, handles]
    rd,      \* a ReadDirPlusByFh call in progress, page by page
    cmp      \* the handles sameHandle was last given and what it returned

vars == <<v, ns, last, prev, lastNs, prevNs, nops, srv, rd, cmp>>

\* ------------------------------------------------------------ basic values
Obj == 1..MaxObj
RootObj == 1

NilFh == [isNil |-> TRUE, bytes |-> <<>>]
\* The server's handle for object o: two octets.
FhOf(o) == [isNil |-> FALSE, bytes |-> <<o \div 4, o % 4>>]
\* The object a handle names, 0 when the handle is none the server issued.
ObjOf(fh) ==
    IF fh.isNil \/ Len(fh.bytes) # 2 THEN 0
    ELSE LET o == fh.bytes[1] * 4 + fh.bytes[2]
         IN IF o \in Obj THEN o ELSE 0

NilAttr == [isNil |-> TRUE, type |-> "none", fileid |-> 0, mode |-> 0, nlink |-> 0, size |-> 0]

FreeObj ==
    [type |-> "free", ents |-> <<>>, target |-> <<>>, parent |-> 0, deny |-> "none"]
DirObj(parent, ents) ==
    [type |-> "dir", ents |-> ents, target |-> <<>>, parent |-> parent, deny |-> "none"]
RegObj ==
    [type |-> "reg", ents |-> <<>>, target |-> <<>>, parent |-> 0, deny |-> "none"]
LnkObj(target) ==
    [type |-> "lnk", ents |-> <<>>, target |-> target, parent |-> 0, deny |-> "none"]
Ent(name, o) == [name |-> name, id |-> o]

\* mode & 0o170000 for a 32-bit mode
ModeFmt(mode) == ((mode \div 4096) % 16) * 4096

\* The fattr3 the server serves for object o.
FattrOf(n, o) ==
    LET ob == n[o]
    IN [isNil  |-> FALSE,
        type   |-> CASE ob.type = "dir" -> "NF3Dir"
                     [] ob.type = "lnk" -> "NF3Lnk"
                     [] OTHER -> "NF3Reg",
        fileid |-> o,
        mode   |-> CASE ob.type = "dir" -> 16384 + 493
                     [] ob.type = "lnk" -> S_IFLNK + 511
                     [] OTHER -> 32768 + 420,
        nlink  |-> IF ob.type = "dir" THEN 2 ELSE 1,
        size   |-> CASE ob.type = "dir" -> Len(ob.ents)
                     [] ob.type = "lnk" -> Len(ob.target)
                     [] OTHER -> 0]

\* F of the value of x: x is computed once, whatever the uses F makes of it.
With(x, F(_)) == F(x)

\* One request as the RPC channel sees it.
Rpc(proc, fh, name) ==
    [proc |-> proc, fh |-> fh, name |-> name, tofh |-> NilFh, toname |-> <<>>,
     cookie |-> 0, verf |-> 0, dircount |-> 0, maxcount |-> 0]

\* ----------------------------------------------------------------- strings
RECURSIVE SplitAcc(_, _, _)
SplitAcc(p, i, cur) ==
    IF i > Len(p) THEN <<cur>>
    ELSE IF p[i] = "/" THEN <<cur>> \o SplitAcc(p, i + 1, <<>>)
    ELSE SplitAcc(p, i + 1, Append(cur, p[i]))

\* strings.Split(p, "/")
Split(p) == SplitAcc(p, 1, <<>>)

\* strings.LastIndex(p, "/") + 1: the length of the part up to the last slash
LastSlash(p) ==
    LET S == {i \in 1..Len(p) : p[i] = "/"}
    IN IF S = {} THEN 0 ELSE CHOOSE i \in S : \A j \in S : j <= i

\* path.Split(p): <<dir, file>>
PathSplit(p) == <<SubSeq(p, 1, LastSlash(p)), SubSeq(p, LastSlash(p) + 1, Len(p))>>

Dot == <<".">>
DotDot == <<".", ".">>

\* ------------------------------------------------------------- sameHandle
\* sameHandle without the loop over the bytes.
sameHandle_LengthOnly(a, b) == Len(a.bytes) = Len(b.bytes)

\* sameHandle without the test of the lengths: the loop over a alone.
sameHandle_NoLengthTest(a, b) ==
    \A i \in 1..Len(a.bytes) : i <= Len(b.bytes) /\ b.bytes[i] = a.bytes[i]

sameHandle(a, b) ==
    IF Len(a.bytes) # Len(b.bytes) THEN FALSE
    ELSE \A i \in 1..Len(a.bytes) : b.bytes[i] = a.bytes[i]

\* ---------------------------------------------- the server behind v.call
\* The status the server gives a handle before looking at anything else.
FhStatus(n, fh) ==
    With(ObjOf(fh), LAMBDA o :
        IF o = 0 THEN "BADHANDLE"
        ELSE IF n[o].type = "free" THEN "STALE"
        ELSE "nil")

\* The object a name is bound to in directory d, 0 when it is not bound.
EntryOf(n, d, name) ==
    IF name = Dot THEN d
    ELSE IF name = DotDot THEN n[d].parent
    ELSE LET S == {i \in 1..Len(n[d].ents) : n[d].ents[i].name = name}
         IN IF S = {} THEN 0 ELSE n[d].ents[CHOOSE i \in S : TRUE].id

\* lookup: LOOKUP(fh, name) and its reply [err, fattr, fh]
lookup(n, fh, name) ==
    With(FhStatus(n, fh), LAMBDA st :
    With(ObjOf(fh), LAMBDA d :
        IF st # "nil" THEN [err |-> st, fattr |-> NilAttr, fh |-> NilFh]
        ELSE IF n[d].type # "dir" THEN [err |-> "NOTDIR", fattr |-> NilAttr, fh |-> NilFh]
        ELSE IF name = <<>> THEN [err |-> "ACCES", fattr |-> NilAttr, fh |-> NilFh]
        ELSE With(EntryOf(n, d, name), LAMBDA o :
            IF o = 0 THEN [err |-> "NOENT", fattr |-> NilAttr, fh |-> NilFh]
            ELSE [err |-> "nil", fattr |-> FattrOf(n, o), fh |-> FhOf(o)])))

\* readlinkFh: READLINK(fh) and its reply [err, target]
readlinkFh(n, fh) ==
    With(FhStatus(n, fh), LAMBDA st :
        IF st # "nil" THEN [err |-> st, target |-> <<>>]
        ELSE IF n[ObjOf(fh)].type # "lnk" THEN [err |-> "INVAL", target |-> <<>>]
        ELSE [err |-> "nil", target |-> n[ObjOf(fh)].target])

\* GetAttrFh: GETATTR(fh) and its reply [err, fattr]
GetAttrFh(n, fh) ==
    With(FhStatus(n, fh), LAMBDA st :
        IF st # "nil" THEN [err |-> st, fattr |-> NilAttr]
        ELSE [err |-> "nil", fattr |-> FattrOf(n, ObjOf(fh))])

\* ------------------------------------------------------- the path resolver
\* What lookupInner returns; div marks a call that never returns (its
\* recursion has no end and the goroutine's stack overflows).
Ret(fattr, fh, dirent, prevFh, err, rpcs) ==
    [fattr |-> fattr, fh |-> fh, dirent |-> dirent, prevFh |-> prevFh,
     err |-> err, rpcs |-> rpcs, div |-> FALSE]
ErrRet(err, rpcs) == Ret(NilAttr, NilFh, <<>>, NilFh, err, rpcs)
DivRet(rpcs) == [ErrRet("nil", rpcs) EXCEPT !.div = TRUE]

\* A nest of lookupInner frames holds one symlink per frame below the
\* first; a nest deeper than the number of symlinks follows some symlink
\* for the second time, from the same point, and so for ever.
StackLimit(n) == Cardinality({o \in Obj : n[o].type = "lnk"})

IsSymlink(fattr) == ModeFmt(fattr.mode) = S_IFLNK

\* lookupOrigin != nil && sameHandle(fh, lookupOrigin)
OriginHit(fh, lookupOrigin) == ~lookupOrigin.isNil /\ sameHandle(fh, lookupOrigin)

RECURSIVE lookupLoop(_, _, _, _, _, _, _)
\* The for loop of lookupInner from index st.i on (st.i components done).
lookupLoop(n, root, dirents, lookupLast, lookupOrigin, depth, st) ==
    IF st.i >= Len(dirents)
    THEN Ret(st.fattr, st.fh, st.dirent, st.prevFh, "nil", st.rpcs)
    ELSE
    With([i |-> st.i + 1, fattr |-> st.fattr, fh |-> st.fh,
          dirent |-> dirents[st.i + 1], prevFh |-> st.fh, rpcs |-> st.rpcs],
         LAMBDA s1 :
    IF s1.i = Len(dirents) /\ ~lookupLast
    THEN Ret(NilAttr, NilFh, s1.dirent, s1.prevFh, "nil", s1.rpcs)
    ELSE With(
        IF s1.dirent = Dot \/ s1.dirent = <<>> THEN [err |-> "nil", st |-> s1]
        ELSE
        With(lookup(n, s1.prevFh, s1.dirent), LAMBDA r :
        With(Append(s1.rpcs, Rpc("LOOKUP", s1.prevFh, s1.dirent)), LAMBDA rpcs1 :
            IF r.err # "nil" THEN [err |-> r.err, st |-> [s1 EXCEPT !.rpcs = rpcs1]]
            ELSE IF ~IsSymlink(r.fattr)
            THEN [err |-> "nil",
                  st |-> [s1 EXCEPT !.fattr = r.fattr, !.fh = r.fh, !.rpcs = rpcs1]]
            ELSE IF OriginHit(r.fh, lookupOrigin)
            THEN [err |-> "recursed symlink", st |-> [s1 EXCEPT !.rpcs = rpcs1]]
            ELSE
            With(readlinkFh(n, r.fh), LAMBDA rl :
            With(Append(rpcs1, Rpc("READLINK", r.fh, <<>>)), LAMBDA rpcs2 :
                IF rl.err # "nil" THEN [err |-> rl.err, st |-> [s1 EXCEPT !.rpcs = rpcs2]]
                ELSE IF depth = 0 THEN [err |-> "div", st |-> [s1 EXCEPT !.rpcs = rpcs2]]
                ELSE
                \* _, fh, _, _, err = v.lookupInner(v.fh, target, true, fh):
                \* err is the one declared by the READLINK line above, local
                \* to the if block, and nothing reads it afterwards.
                With(lookupLoop(n, root, Split(rl.target), TRUE, r.fh, depth - 1,
                                [i |-> 0, fattr |-> NilAttr, fh |-> root,
                                 dirent |-> <<>>, prevFh |-> NilFh, rpcs |-> <<>>]),
                     LAMBDA in :
                    [err |-> IF in.div THEN "div" ELSE "nil",
                     st |-> [s1 EXCEPT !.fattr = r.fattr, !.fh = in.fh,
                                       !.rpcs = rpcs2 \o in.rpcs]]))))),
        LAMBDA step :
            IF step.err = "div" THEN DivRet(step.st.rpcs)
            ELSE IF step.err # "nil" THEN ErrRet(step.err, step.st.rpcs)
            ELSE lookupLoop(n, root, dirents, lookupLast, lookupOrigin, depth, step.st)))

\* lookupInner that looks the last component up whatever lookupLast says.
lookupInner_LastLookedUp(n, root, fh, p, lookupLast, lookupOrigin) ==
    lookupLoop(n, root, Split(p), TRUE, lookupOrigin, StackLimit(n),
               [i |-> 0, fattr |-> NilAttr, fh |-> fh, dirent |-> <<>>,
                prevFh |-> NilFh, rpcs |-> <<>>])

lookupInner(n, root, fh, p, lookupLast, lookupOrigin) ==
    lookupLoop(n, root, Split(p), lookupLast, lookupOrigin, StackLimit(n),
               [i |-> 0, fattr |-> NilAttr, fh |-> fh, dirent |-> <<>>,
                prevFh |-> NilFh, rpcs |-> <<>>])

\* --------------------------------------------- the server's mutating calls
\* The lowest free object slot, 0 when the server is full.
Alloc(n) ==
    LET F == {o \in Obj : n[o].type = "free"}
    IN IF F = {} THEN 0 ELSE CHOOSE o \in F : \A q \in F : o <= q

DropEnt(ents, name) == SelectSeq(ents, LAMBDA e : e.name # name)

\* The status every directory operation starts with: the handle is a
\* directory's, the name is one an entry can have, and the directory may
\* be written (deny is "write" for one the server lets nobody change).
DirOpStatus(n, fh, name) ==
    With(FhStatus(n, fh), LAMBDA st :
        IF st # "nil" THEN st
        ELSE IF n[ObjOf(fh)].type # "dir" THEN "NOTDIR"
        ELSE IF name = <<>> THEN "ACCES"
        ELSE IF n[ObjOf(fh)].deny = "write" THEN "ACCES"
        ELSE "nil")

\* A new object ob bound to name in directory d.
Bind(n, d, name, o, ob) ==
    [n EXCEPT ![o] = ob, ![d].ents = Append(@, Ent(name, o))]

\* CreateByFh: CREATE(fh, name, UNCHECKED) and its reply [err, fh, ns]
CreateByFh(n, fh, name) ==
    With(DirOpStatus(n, fh, name), LAMBDA st :
    With(ObjOf(fh), LAMBDA d :
        IF st # "nil" THEN [err |-> st, fh |-> NilFh, ns |-> n]
        ELSE With(EntryOf(n, d, name), LAMBDA o :
             With(Alloc(n), LAMBDA new :
                IF o # 0 /\ n[o].type = "reg" THEN [err |-> "nil", fh |-> FhOf(o), ns |-> n]
                ELSE IF o # 0 THEN [err |-> "EXIST", fh |-> NilFh, ns |-> n]
                ELSE IF new = 0 THEN [err |-> "NOSPC", fh |-> NilFh, ns |-> n]
                ELSE [err |-> "nil", fh |-> FhOf(new),
                      ns |-> Bind(n, d, name, new, RegObj)]))))

\* MkdirByParentFh: MKDIR(fh, name) and its reply [err, fh, ns]
MkdirByParentFh(n, fh, name) ==
    With(DirOpStatus(n, fh, name), LAMBDA st :
    With(ObjOf(fh), LAMBDA d :
        IF st # "nil" THEN [err |-> st, fh |-> NilFh, ns |-> n]
        ELSE With(Alloc(n), LAMBDA new :
            IF EntryOf(n, d, name) # 0 THEN [err |-> "EXIST", fh |-> NilFh, ns |-> n]
            ELSE IF new = 0 THEN [err |-> "NOSPC", fh |-> NilFh, ns |-> n]
            ELSE [err |-> "nil", fh |-> FhOf(new),
                  ns |-> Bind(n, d, name, new, DirObj(d, <<>>))])))

\* remove: REMOVE(fh, name) and its reply [err, ns]
remove(n, fh, deleteFile) ==
    With(DirOpStatus(n, fh, deleteFile), LAMBDA st :
    With(ObjOf(fh), LAMBDA d :
        IF st # "nil" THEN [err |-> st, ns |-> n]
        ELSE With(EntryOf(n, d, deleteFile), LAMBDA o :
            IF o = 0 THEN [err |-> "NOENT", ns |-> n]
            ELSE IF n[o].type = "dir" THEN [err |-> "ISDIR", ns |-> n]
            ELSE [err |-> "nil",
                  ns |-> [n EXCEPT ![o] = FreeObj, ![d].ents = DropEnt(@, deleteFile)]])))

\* rmDir: RMDIR(fh, name) and its reply [err, ns]
rmDir(n, fh, name) ==
    With(DirOpStatus(n, fh, name), LAMBDA st :
    With(ObjOf(fh), LAMBDA d :
        IF st # "nil" THEN [err |-> st, ns |-> n]
        ELSE IF name = Dot THEN [err |-> "INVAL", ns |-> n]
        ELSE IF name = DotDot THEN [err |-> "EXIST", ns |-> n]
        ELSE With(EntryOf(n, d, name), LAMBDA o :
            IF o = 0 THEN [err |-> "NOENT", ns |-> n]
            ELSE IF n[o].type # "dir" THEN [err |-> "NOTDIR", ns |-> n]
            ELSE IF n[o].ents # <<>> THEN [err |-> "NOTEMPTY", ns |-> n]
            ELSE [err |-> "nil",
                  ns |-> [n EXCEPT ![o] = FreeObj, ![d].ents = DropEnt(@, name)]])))

RECURSIVE Within(_, _, _)
\* Directory d is directory a or lies below it.
Within(n, d, a) ==
    IF d = a THEN TRUE
    ELSE IF d = RootObj \/ n[d].parent = d THEN FALSE
    ELSE Within(n, n[d].parent, a)

\* RenameByFh: RENAME(fromFh, fromName, toFh, toName) and its reply [err, ns]
\* The entry fromName of directory fd of namespace m, bound to o, moved to
\* toName of directory td.
Moved(m, fd, fromName, td, toName, o) ==
    With([m EXCEPT ![fd].ents = DropEnt(@, fromName)], LAMBDA m1 :
    With([m1 EXCEPT ![td].ents = Append(@, Ent(toName, o))], LAMBDA m2 :
        IF m[o].type = "dir" THEN [m2 EXCEPT ![o].parent = td] ELSE m2))

RenameByFh(n, fromFh, fromName, toFh, toName) ==
    With(DirOpStatus(n, fromFh, fromName), LAMBDA st1 :
    With(DirOpStatus(n, toFh, toName), LAMBDA st2 :
    With(ObjOf(fromFh), LAMBDA fd :
    With(ObjOf(toFh), LAMBDA td :
        IF st1 # "nil" THEN [err |-> st1, ns |-> n]
        ELSE IF st2 # "nil" THEN [err |-> st2, ns |-> n]
        ELSE IF fromName \in {Dot, DotDot} \/ toName \in {Dot, DotDot}
        THEN [err |-> "INVAL", ns |-> n]
        ELSE
        With(EntryOf(n, fd, fromName), LAMBDA o :
        With(EntryOf(n, td, toName), LAMBDA t :
            IF o = 0 THEN [err |-> "NOENT", ns |-> n]
            ELSE IF n[o].type = "dir" /\ Within(n, td, o) THEN [err |-> "INVAL", ns |-> n]
            ELSE IF t = o THEN [err |-> "nil", ns |-> n]
            ELSE IF t # 0 /\ n[o].type = "dir" /\ n[t].type # "dir"
            THEN [err |-> "NOTDIR", ns |-> n]
            ELSE IF t # 0 /\ n[o].type # "dir" /\ n[t].type = "dir"
            THEN [err |-> "ISDIR", ns |-> n]
            ELSE IF t # 0 /\ n[t].ents # <<>> THEN [err |-> "EXIST", ns |-> n]
            ELSE [err |-> "nil",
                  ns |-> Moved(IF t = 0 THEN n
                               ELSE [n EXCEPT ![t] = FreeObj,
                                              ![td].ents = DropEnt(@, toName)],
                               fd, fromName, td, toName, o)]))))))

\* ------------------------------------------------------ the directory pager
\* The server's verifier for the listing of directory d: it changes when
\* the directory does.
DirVerf(n, d) == 1 + Len(n[d].ents)

\* One entry of a READDIRPLUS reply; the cookie is its place in the listing.
EntryPlus(n, name, o, cookie, handles) ==
    [fileid |-> o, name |-> name, cookie |-> cookie, attr |-> FattrOf(n, o),
     handleSet |-> handles, fh |-> IF handles THEN FhOf(o) ELSE NilFh]

\* The whole listing of directory d in the server's order: ".", ".." and
\* the entries.
Listing(n, d, handles) ==
    <<EntryPlus(n, Dot, d, 1, handles), EntryPlus(n, DotDot, n[d].parent, 2, handles)>> \o
    [i \in 1..Len(n[d].ents) |->
        EntryPlus(n, n[d].ents[i].name, n[d].ents[i].id, i + 2, handles)]

\* READDIRPLUS(fh, cookie, cookieVerf) and its reply [err, verf, entries,
\* eof] when the server puts up to k entries on the page; with late set it
\* leaves eof false on the page that holds the last entry. A directory
\* whose deny is "read" is one the server lets nobody list.
ReadDirPlusReply(n, fh, cookie, cookieVerf, k, late, handles) ==
    With(FhStatus(n, fh), LAMBDA st :
    With(ObjOf(fh), LAMBDA d :
        IF st # "nil" THEN [err |-> st, verf |-> 0, entries |-> <<>>, eof |-> FALSE]
        ELSE IF n[d].type # "dir"
        THEN [err |-> "NOTDIR", verf |-> 0, entries |-> <<>>, eof |-> FALSE]
        ELSE IF n[d].deny = "read"
        THEN [err |-> "ACCES", verf |-> 0, entries |-> <<>>, eof |-> FALSE]
        ELSE IF cookie # 0 /\ cookieVerf # DirVerf(n, d)
        THEN [err |-> "BAD_COOKIE", verf |-> 0, entries |-> <<>>, eof |-> FALSE]
        ELSE
        With(Listing(n, d, handles), LAMBDA all :
        With(IF cookie + k < Len(all) THEN cookie + k ELSE Len(all), LAMBDA upto :
            [err |-> "nil", verf |-> DirVerf(n, d),
             entries |-> SubSeq(all, cookie + 1, upto),
             eof |-> upto = Len(all) /\ ~late]))))

\* The READDIRPLUS request the loop of ReadDirPlusByFh sends in state st.
ReadDirRequest(st) ==
    [Rpc("READDIRPLUS", st.fh, <<>>) EXCEPT !.cookie = st.cookie, !.verf = st.cookieVerf,
                                            !.dircount = DirCount, !.maxcount = MaxCount]

\* The turn with the cursor set by the first entry of the page, not the last.
ReadDirPage_CursorOfFirstEntry(st, reply) ==
    IF reply.err # "nil"
    THEN [st EXCEPT !.pc = "done", !.err = reply.err, !.entries = <<>>,
                    !.req = ReadDirRequest(st)]
    ELSE [st EXCEPT
            !.cookie = IF reply.entries = <<>> THEN @ ELSE reply.entries[1].cookie,
            !.entries = @ \o reply.entries,
            !.eof = reply.eof,
            !.cookieVerf = reply.verf,
            !.req = ReadDirRequest(st)]

\* The turn that returns the entries gathered so far with the error.
ReadDirPage_EntriesKeptOnError(st, reply) ==
    IF reply.err # "nil"
    THEN [st EXCEPT !.pc = "done", !.err = reply.err, !.req = ReadDirRequest(st)]
    ELSE [st EXCEPT
            !.cookie = IF reply.entries = <<>> THEN @
                       ELSE reply.entries[Len(reply.entries)].cookie,
            !.entries = @ \o reply.entries,
            !.eof = reply.eof,
            !.cookieVerf = reply.verf,
            !.req = ReadDirRequest(st)]

\* The turn with the verifier of the reply not kept for the next request.
ReadDirPage_VerifierNotEchoed(st, reply) ==
    IF reply.err # "nil"
    THEN [st EXCEPT !.pc = "done", !.err = reply.err, !.entries = <<>>,
                    !.req = ReadDirRequest(st)]
    ELSE [st EXCEPT
            !.cookie = IF reply.entries = <<>> THEN @
                       ELSE reply.entries[Len(reply.entries)].cookie,
            !.entries = @ \o reply.entries,
            !.eof = reply.eof,
            !.req = ReadDirRequest(st)]

\* One turn of the loop of ReadDirPlusByFh with the pager's variables in st:
\* the request is sent and the reply decoded.
ReadDirPage(st, reply) ==
    IF reply.err # "nil"
    THEN [st EXCEPT !.pc = "done", !.err = reply.err, !.entries = <<>>,
                    !.req = ReadDirRequest(st)]
    ELSE [st EXCEPT
            !.cookie = IF reply.entries = <<>> THEN @
                       ELSE reply.entries[Len(reply.entries)].cookie,
            !.entries = @ \o reply.entries,
            !.eof = reply.eof,
            !.cookieVerf = reply.verf,
            !.req = ReadDirRequest(st)]

\* The pager's variables when ReadDirPlusByFh(fh) enters its loop.
ReadDirStart(fh) ==
    [pc |-> "loop", fh |-> fh, cookie |-> 0, cookieVerf |-> 0, eof |-> FALSE,
     entries |-> <<>>, err |-> "nil", req |-> Rpc("none", NilFh, <<>>), nreq |-> 0,
     turn |-> FALSE]

RECURSIVE ReadDirLoop(_, _, _, _)
\* The loop run to its end against a server that fills pages of s.page
\* entries: [err, entries, rpcs].
ReadDirLoop(n, s, st, rpcs) ==
    IF st.pc = "done" THEN [err |-> st.err, entries |-> <<>>, rpcs |-> rpcs]
    ELSE IF st.eof THEN [err |-> "nil", entries |-> st.entries, rpcs |-> rpcs]
    ELSE ReadDirLoop(n, s,
             ReadDirPage(st, ReadDirPlusReply(n, st.fh, st.cookie, st.cookieVerf,
                                              s.page, FALSE, s.handles)),
             Append(rpcs, ReadDirRequest(st)))

ReadDirPlusByFh(n, s, fh) == ReadDirLoop(n, s, ReadDirStart(fh), <<>>)

\* ---------------------------------------------------- the recursive remover
\* os.IsNotExist(err) on the error of an NFS status
IsNotExist(err) == err \in {"NOENT", "STALE"}
IsNotDirError(err) == err = "NOTDIR"

RECURSIVE removeAll(_, _, _), removeEntries(_, _, _, _, _, _)
\* The loop sending REMOVE for a directory entry that carries no handle.
removeEntries_RemoveWithoutHandle(n, s, deleteDirfh, entries, i, rpcs) ==
    IF i > Len(entries) THEN [err |-> "nil", ns |-> n, rpcs |-> rpcs]
    ELSE
    With(entries[i], LAMBDA entry :
    With(
        IF entry.name = Dot \/ entry.name = DotDot
        THEN [err |-> "nil", ns |-> n, rpcs |-> rpcs]
        ELSE IF entry.attr.type = "NF3Dir" /\ entry.handleSet
        THEN
            With(IF entry.handleSet THEN removeAll(n, s, entry.fh)
                 ELSE [err |-> "nil", ns |-> n, rpcs |-> <<>>], LAMBDA sub :
                IF sub.err # "nil"
                THEN [err |-> sub.err, ns |-> sub.ns, rpcs |-> rpcs \o sub.rpcs]
                ELSE With(rmDir(sub.ns, deleteDirfh, entry.name), LAMBDA r :
                    [err |-> r.err, ns |-> r.ns,
                     rpcs |-> Append(rpcs \o sub.rpcs,
                                     Rpc("RMDIR", deleteDirfh, entry.name))]))
        ELSE
            With(remove(n, deleteDirfh, entry.name), LAMBDA r :
                [err |-> r.err, ns |-> r.ns,
                 rpcs |-> Append(rpcs, Rpc("REMOVE", deleteDirfh, entry.name))]),
        LAMBDA step :
            IF step.err # "nil" THEN step
            ELSE removeEntries(step.ns, s, deleteDirfh, entries, i + 1, step.rpcs)))

\* The loop taking a symlink entry for a directory.
removeEntries_LinkEntered(n, s, deleteDirfh, entries, i, rpcs) ==
    IF i > Len(entries) THEN [err |-> "nil", ns |-> n, rpcs |-> rpcs]
    ELSE
    With(entries[i], LAMBDA entry :
    With(
        IF entry.name = Dot \/ entry.name = DotDot
        THEN [err |-> "nil", ns |-> n, rpcs |-> rpcs]
        ELSE IF entry.attr.type \in {"NF3Dir", "NF3Lnk"}
        THEN
            With(IF entry.handleSet THEN removeAll(n, s, entry.fh)
                 ELSE [err |-> "nil", ns |-> n, rpcs |-> <<>>], LAMBDA sub :
                IF sub.err # "nil"
                THEN [err |-> sub.err, ns |-> sub.ns, rpcs |-> rpcs \o sub.rpcs]
                ELSE With(rmDir(sub.ns, deleteDirfh, entry.name), LAMBDA r :
                    [err |-> r.err, ns |-> r.ns,
                     rpcs |-> Append(rpcs \o sub.rpcs,
                                     Rpc("RMDIR", deleteDirfh, entry.name))]))
        ELSE
            With(remove(n, deleteDirfh, entry.name), LAMBDA r :
                [err |-> r.err, ns |-> r.ns,
                 rpcs |-> Append(rpcs, Rpc("REMOVE", deleteDirfh, entry.name))]),
        LAMBDA step :
            IF step.err # "nil" THEN step
            ELSE removeEntries(step.ns, s, deleteDirfh, entries, i + 1, step.rpcs)))

\* The loop going on to the next entry when a removal has failed.
removeEntries_ErrorSkipped(n, s, deleteDirfh, entries, i, rpcs) ==
    IF i > Len(entries) THEN [err |-> "nil", ns |-> n, rpcs |-> rpcs]
    ELSE
    With(entries[i], LAMBDA entry :
    With(
        IF entry.name = Dot \/ entry.name = DotDot
        THEN [err |-> "nil", ns |-> n, rpcs |-> rpcs]
        ELSE IF entry.attr.type = "NF3Dir"
        THEN
            With(IF entry.handleSet THEN removeAll(n, s, entry.fh)
                 ELSE [err |-> "nil", ns |-> n, rpcs |-> <<>>], LAMBDA sub :
                IF sub.err # "nil"
                THEN [err |-> sub.err, ns |-> sub.ns, rpcs |-> rpcs \o sub.rpcs]
                ELSE With(rmDir(sub.ns, deleteDirfh, entry.name), LAMBDA r :
                    [err |-> r.err, ns |-> r.ns,
                     rpcs |-> Append(rpcs \o sub.rpcs,
                                     Rpc("RMDIR", deleteDirfh, entry.name))]))
        ELSE
            With(remove(n, deleteDirfh, entry.name), LAMBDA r :
                [err |-> r.err, ns |-> r.ns,
                 rpcs |-> Append(rpcs, Rpc("REMOVE", deleteDirfh, entry.name))]),
        LAMBDA step :
            IF step.err # "nil" /\ i = Len(entries) THEN step
            ELSE removeEntries(step.ns, s, deleteDirfh, entries, i + 1, step.rpcs)))

\* The loop sending the RMDIR of a directory entry before it goes into it.
removeEntries_DirFirst(n, s, deleteDirfh, entries, i, rpcs) ==
    IF i > Len(entries) THEN [err |-> "nil", ns |-> n, rpcs |-> rpcs]
    ELSE
    With(entries[i], LAMBDA entry :
    With(
        IF entry.name = Dot \/ entry.name = DotDot
        THEN [err |-> "nil", ns |-> n, rpcs |-> rpcs]
        ELSE IF entry.attr.type = "NF3Dir"
        THEN
            With(rmDir(n, deleteDirfh, entry.name), LAMBDA r :
            With(Append(rpcs, Rpc("RMDIR", deleteDirfh, entry.name)), LAMBDA rpcs1 :
                IF r.err # "nil" \/ ~entry.handleSet
                THEN [err |-> r.err, ns |-> r.ns, rpcs |-> rpcs1]
                ELSE With(removeAll(r.ns, s, entry.fh), LAMBDA sub :
                    [err |-> sub.err, ns |-> sub.ns, rpcs |-> rpcs1 \o sub.rpcs])))
        ELSE
            With(remove(n, deleteDirfh, entry.name), LAMBDA r :
                [err |-> r.err, ns |-> r.ns,
                 rpcs |-> Append(rpcs, Rpc("REMOVE", deleteDirfh, entry.name))]),
        LAMBDA step :
            IF step.err # "nil" THEN step
            ELSE removeEntries(step.ns, s, deleteDirfh, entries, i + 1, step.rpcs)))

\* The for loop of removeAll over entries from index i on: [err, ns, rpcs].
removeEntries(n, s, deleteDirfh, entries, i, rpcs) ==
    IF i > Len(entries) THEN [err |-> "nil", ns |-> n, rpcs |-> rpcs]
    ELSE
    With(entries[i], LAMBDA entry :
    With(
        IF entry.name = Dot \/ entry.name = DotDot
        THEN [err |-> "nil", ns |-> n, rpcs |-> rpcs]
        ELSE IF entry.attr.type = "NF3Dir"
        THEN
            With(IF entry.handleSet THEN removeAll(n, s, entry.fh)
                 ELSE [err |-> "nil", ns |-> n, rpcs |-> <<>>], LAMBDA sub :
                IF sub.err # "nil"
                THEN [err |-> sub.err, ns |-> sub.ns, rpcs |-> rpcs \o sub.rpcs]
                ELSE With(rmDir(sub.ns, deleteDirfh, entry.name), LAMBDA r :
                    [err |-> r.err, ns |-> r.ns,
                     rpcs |-> Append(rpcs \o sub.rpcs,
                                     Rpc("RMDIR", deleteDirfh, entry.name))]))
        ELSE
            With(remove(n, deleteDirfh, entry.name), LAMBDA r :
                [err |-> r.err, ns |-> r.ns,
                 rpcs |-> Append(rpcs, Rpc("REMOVE", deleteDirfh, entry.name))]),
        LAMBDA step :
            IF step.err # "nil" THEN step
            ELSE removeEntries(step.ns, s, deleteDirfh, entries, i + 1, step.rpcs)))

\* removeAll removes the deleteDir recursively
removeAll(n, s, deleteDirfh) ==
    With(ReadDirPlusByFh(n, s, deleteDirfh), LAMBDA l :
        IF l.err # "nil" THEN [err |-> l.err, ns |-> n, rpcs |-> l.rpcs]
        ELSE removeEntries(n, s, deleteDirfh, l.entries, 1, l.rpcs))

\* ------------------------------------------------------ the facade methods
\* What a facade method returns and does: its error, the values it returns
\* (those a method does not have are nil), the namespace it leaves, the
\* requests it sent, and whether it returns at all.
Out(err, fattr, fh, str, n, rpcs) ==
    [err |-> err, fattr |-> fattr, fh |-> fh, str |-> str, entries |-> <<>>,
     prevFh |-> NilFh, ns |-> n, rpcs |-> rpcs, div |-> FALSE]
ErrOut(err, n, rpcs) == Out(err, NilAttr, NilFh, <<>>, n, rpcs)
DivOut(n, rpcs) == [ErrOut("nil", n, rpcs) EXCEPT !.div = TRUE]

\* Lookup returns attributes and the file handle to a given dirent
Lookup(n, t, p) ==
    With(lookupInner(n, t.fh, t.fh, p, TRUE, NilFh), LAMBDA r :
        IF r.div THEN DivOut(n, r.rpcs)
        ELSE Out(r.err, r.fattr, r.fh, <<>>, n, r.rpcs))

GetAttr(n, t, path) ==
    With(Lookup(n, t, path), LAMBDA l :
        IF l.div THEN l
        ELSE IF l.err # "nil" THEN ErrOut(l.err, n, l.rpcs)
        ELSE With(GetAttrFh(n, l.fh), LAMBDA g :
            Out(g.err, g.fattr, l.fh, <<>>, n, Append(l.rpcs, Rpc("GETATTR", l.fh, <<>>)))))

\* Readlink reads a symbolic link and returns the target
Readlink(n, t, path) ==
    With(Lookup(n, t, path), LAMBDA l :
        IF l.div THEN l
        ELSE IF l.err # "nil" THEN ErrOut(l.err, n, l.rpcs)
        ELSE With(readlinkFh(n, l.fh), LAMBDA r :
            Out(r.err, NilAttr, NilFh, r.target, n,
                Append(l.rpcs, Rpc("READLINK", l.fh, <<>>)))))

Create(n, t, path) ==
    With(lookupInner(n, t.fh, t.fh, path, FALSE, NilFh), LAMBDA r :
        IF r.div THEN DivOut(n, r.rpcs)
        ELSE IF r.err # "nil" THEN ErrOut(r.err, n, r.rpcs)
        ELSE With(CreateByFh(n, r.prevFh, r.dirent), LAMBDA c :
            Out(c.err, NilAttr, c.fh, <<>>, c.ns,
                Append(r.rpcs, Rpc("CREATE", r.prevFh, r.dirent)))))

Mkdir(n, t, path) ==
    With(PathSplit(path), LAMBDA dn :
    With(Lookup(n, t, dn[1]), LAMBDA l :
        IF l.div THEN l
        ELSE IF l.err # "nil" THEN ErrOut(l.err, n, l.rpcs)
        ELSE With(MkdirByParentFh(n, l.fh, dn[2]), LAMBDA m :
            Out(m.err, NilAttr, m.fh, <<>>, m.ns,
                Append(l.rpcs, Rpc("MKDIR", l.fh, dn[2]))))))

\* Remove with the parent part resolved the way Create resolves its path,
\* the last component not looked up.
Remove_ParentNotLookedUp(n, t, path) ==
    With(PathSplit(path), LAMBDA dn :
    With(lookupInner(n, t.fh, t.fh, dn[1], FALSE, NilFh), LAMBDA l :
        IF l.div THEN DivOut(n, l.rpcs)
        ELSE IF l.err # "nil" THEN ErrOut(l.err, n, l.rpcs)
        ELSE With(remove(n, l.fh, dn[2]), LAMBDA r :
            Out(r.err, NilAttr, NilFh, <<>>, r.ns,
                Append(l.rpcs, Rpc("REMOVE", l.fh, dn[2]))))))

\* Remove a file
Remove(n, t, path) ==
    With(PathSplit(path), LAMBDA dn :
    With(Lookup(n, t, dn[1]), LAMBDA l :
        IF l.div THEN l
        ELSE IF l.err # "nil" THEN ErrOut(l.err, n, l.rpcs)
        ELSE With(remove(n, l.fh, dn[2]), LAMBDA r :
            Out(r.err, NilAttr, NilFh, <<>>, r.ns,
                Append(l.rpcs, Rpc("REMOVE", l.fh, dn[2]))))))

RmDir(n, t, path) ==
    With(PathSplit(path), LAMBDA dn :
    With(Lookup(n, t, dn[1]), LAMBDA l :
        IF l.div THEN l
        ELSE IF l.err # "nil" THEN ErrOut(l.err, n, l.rpcs)
        ELSE With(rmDir(n, l.fh, dn[2]), LAMBDA r :
            Out(r.err, NilAttr, NilFh, <<>>, r.ns,
                Append(l.rpcs, Rpc("RMDIR", l.fh, dn[2]))))))

Rename(n, t, fromPath, toPath) ==
    With(lookupInner(n, t.fh, t.fh, fromPath, TRUE, NilFh), LAMBDA f :
        IF f.div THEN DivOut(n, f.rpcs)
        ELSE IF f.err # "nil" THEN ErrOut(f.err, n, f.rpcs)
        ELSE IF f.prevFh.isNil
        THEN ErrOut("fromName cannot be a root directory", n, f.rpcs)
        ELSE
        With(lookupInner(n, t.fh, t.fh, toPath, FALSE, NilFh), LAMBDA g :
        With(f.rpcs \o g.rpcs, LAMBDA rpcs :
            IF g.div THEN DivOut(n, rpcs)
            ELSE IF g.err # "nil" THEN ErrOut(g.err, n, rpcs)
            ELSE IF g.prevFh.isNil
            THEN ErrOut("toName cannot be a root directory", n, rpcs)
            ELSE With(RenameByFh(n, f.prevFh, f.dirent, g.prevFh, g.dirent), LAMBDA r :
                Out(r.err, NilAttr, NilFh, <<>>, r.ns,
                    Append(rpcs, [Rpc("RENAME", f.prevFh, f.dirent)
                                    EXCEPT !.tofh = g.prevFh, !.toname = g.dirent]))))))

\* RemoveAll without the return on the not-a-directory error.
RemoveAll_NotDirNotCollected(n, t, s, path) ==
    With(lookupInner(n, t.fh, t.fh, path, FALSE, NilFh), LAMBDA r :
        IF r.div THEN DivOut(n, r.rpcs)
        ELSE IF r.err # "nil" THEN ErrOut(r.err, n, r.rpcs)
        ELSE
        With(rmDir(n, r.prevFh, r.dirent), LAMBDA e1 :
        With(Append(r.rpcs, Rpc("RMDIR", r.prevFh, r.dirent)), LAMBDA rpcs1 :
            IF e1.err = "nil" \/ IsNotExist(e1.err) THEN ErrOut("nil", e1.ns, rpcs1)
            ELSE
            With(lookupInner(n, t.fh, r.prevFh, r.dirent, TRUE, NilFh), LAMBDA l :
            With(rpcs1 \o l.rpcs, LAMBDA rpcs2 :
                IF l.div THEN DivOut(n, rpcs2)
                ELSE IF l.err # "nil" THEN ErrOut(l.err, n, rpcs2)
                ELSE
                With(removeAll(n, s, l.fh), LAMBDA a :
                    IF a.err # "nil" THEN ErrOut(a.err, a.ns, rpcs2 \o a.rpcs)
                    ELSE With(rmDir(a.ns, r.prevFh, r.dirent), LAMBDA e2 :
                        ErrOut(e2.err, e2.ns,
                               Append(rpcs2 \o a.rpcs,
                                      Rpc("RMDIR", r.prevFh, r.dirent))))))))))

\* RemoveAll without the easy path: it lists the directory at once.
RemoveAll_NoEasyPath(n, t, s, path) ==
    With(lookupInner(n, t.fh, t.fh, path, FALSE, NilFh), LAMBDA r :
        IF r.div THEN DivOut(n, r.rpcs)
        ELSE IF r.err # "nil" THEN ErrOut(r.err, n, r.rpcs)
        ELSE
        With(lookupInner(n, t.fh, r.prevFh, r.dirent, TRUE, NilFh), LAMBDA l :
        With(r.rpcs \o l.rpcs, LAMBDA rpcs2 :
            IF l.div THEN DivOut(n, rpcs2)
            ELSE IF l.err # "nil" THEN ErrOut(l.err, n, rpcs2)
            ELSE
            With(removeAll(n, s, l.fh), LAMBDA a :
                IF a.err # "nil" THEN ErrOut(a.err, a.ns, rpcs2 \o a.rpcs)
                ELSE With(rmDir(a.ns, r.prevFh, r.dirent), LAMBDA e2 :
                    ErrOut(e2.err, e2.ns,
                           Append(rpcs2 \o a.rpcs,
                                  Rpc("RMDIR", r.prevFh, r.dirent))))))))

RemoveAll(n, t, s, path) ==
    With(lookupInner(n, t.fh, t.fh, path, FALSE, NilFh), LAMBDA r :
        IF r.div THEN DivOut(n, r.rpcs)
        ELSE IF r.err # "nil" THEN ErrOut(r.err, n, r.rpcs)
        ELSE
        With(rmDir(n, r.prevFh, r.dirent), LAMBDA e1 :
        With(Append(r.rpcs, Rpc("RMDIR", r.prevFh, r.dirent)), LAMBDA rpcs1 :
            IF e1.err = "nil" \/ IsNotExist(e1.err) THEN ErrOut("nil", e1.ns, rpcs1)
            ELSE IF IsNotDirError(e1.err) THEN ErrOut(e1.err, n, rpcs1)
            ELSE
            With(lookupInner(n, t.fh, r.prevFh, r.dirent, TRUE, NilFh), LAMBDA l :
            With(rpcs1 \o l.rpcs, LAMBDA rpcs2 :
                IF l.div THEN DivOut(n, rpcs2)
                ELSE IF l.err # "nil" THEN ErrOut(l.err, n, rpcs2)
                ELSE
                With(removeAll(n, s, l.fh), LAMBDA a :
                    IF a.err # "nil" THEN ErrOut(a.err, a.ns, rpcs2 \o a.rpcs)
                    ELSE With(rmDir(a.ns, r.prevFh, r.dirent), LAMBDA e2 :
                        ErrOut(e2.err, e2.ns,
                               Append(rpcs2 \o a.rpcs,
                                      Rpc("RMDIR", r.prevFh, r.dirent))))))))))

\* FSInfo: FSINFO(v.fh); the info of the reply is returned to the caller
\* and stored nowhere.
FSInfo(n, t) ==
    With(FhStatus(n, t.fh), LAMBDA st :
        Out(st, NilAttr, NilFh, IF st = "nil" THEN <<"fsinfo">> ELSE <<>>, n,
            <<Rpc("FSINFO", t.fh, <<>>)>>))

\* SetAttrByFh: SETATTR(fh, sattr, guard off); the wcc data of the reply is
\* read and dropped.  No attribute the namespace records is one it sets.
SetAttrByFh(n, fh) ==
    Out(FhStatus(n, fh), NilAttr, NilFh, <<>>, n, <<Rpc("SETATTR", fh, <<>>)>>)

\* ReadDirPlus get dir sub item
ReadDirPlus(n, t, s, dir) ==
    With(Lookup(n, t, dir), LAMBDA l :
        IF l.div THEN l
        ELSE IF l.err # "nil" THEN ErrOut(l.err, n, l.rpcs)
        ELSE With(ReadDirPlusByFh(n, s, l.fh), LAMBDA r :
            [ErrOut(r.err, n, l.rpcs \o r.rpcs) EXCEPT !.entries = r.entries]))

\* ------------------------------------------------------------ the Target
\* NewTargetWithClient: the root handle, the credential, the mount path and
\* the server's FSINFO reply.
NewTargetWithClient(fh, auth, dirpath) ==
    [fh |-> fh, auth |-> auth, dirPath |-> dirpath, fsinfo |-> "fsinfo"]

\* ------------------------------------------------------------- the calls
NoCall ==
    [op |-> "none", p |-> <<>>, q |-> <<>>, err |-> "nil", fattr |-> NilAttr,
     fh |-> NilFh, str |-> <<>>, entries |-> <<>>, prevFh |-> NilFh,
     rpcs |-> <<>>, div |-> FALSE]

\* One facade call with its outcome, as the history records it.
Call(op, p, q, out) ==
    [op |-> op, p |-> p, q |-> q, err |-> out.err, fattr |-> out.fattr,
     fh |-> out.fh, str |-> out.str, entries |-> out.entries,
     prevFh |-> out.prevFh, rpcs |-> out.rpcs, div |-> out.div]

\* A facade call that leaves the handle it resolved as the Target's root.
Made_RootMoves(op, p, q, out) ==
    /\ last' = Call(op, p, q, out)
    /\ prev' = last
    /\ lastNs' = ns
    /\ prevNs' = lastNs
    /\ ns' = out.ns
    /\ v' = IF out.fh.isNil THEN v ELSE [v EXCEPT !.fh = out.fh]
    /\ UNCHANGED <<srv, rd, cmp>>

\* A facade call made on the Target: the server ends in out.ns.
Made(op, p, q, out) ==
    /\ last' = Call(op, p, q, out)
    /\ prev' = last
    /\ lastNs' = ns
    /\ prevNs' = lastNs
    /\ ns' = out.ns
    /\ UNCHANGED <<v, srv, rd, cmp>>

LookupOp(p) == Made("Lookup", p, <<>>, Lookup(ns, v, p))
GetAttrOp(p) == Made("GetAttr", p, <<>>, GetAttr(ns, v, p))
ReadlinkOp(p) == Made("Readlink", p, <<>>, Readlink(ns, v, p))
CreateOp(p) == Made("Create", p, <<>>, Create(ns, v, p))
MkdirOp(p) == Made("Mkdir", p, <<>>, Mkdir(ns, v, p))
RemoveOp(p) == Made("Remove", p, <<>>, Remove(ns, v, p))
RmDirOp(p) == Made("RmDir", p, <<>>, RmDir(ns, v, p))
RenameOp(p, q) == Made("Rename", p, q, Rename(ns, v, p, q))
RemoveAllOp(p) == Made("RemoveAll", p, <<>>, RemoveAll(ns, v, srv, p))
ReadDirPlusOp(p) == Made("ReadDirPlus", p, <<>>, ReadDirPlus(ns, v, srv, p))
\* The resolver called from the root as the facade methods call it: the
\* four values it returns are recorded as fattr, fh, str and prevFh.
ResolveOut(n, t, p, lookupLast) ==
    With(lookupInner(n, t.fh, t.fh, p, lookupLast, NilFh), LAMBDA r :
        IF r.div THEN DivOut(n, r.rpcs)
        ELSE [Out(r.err, r.fattr, r.fh, r.dirent, n, r.rpcs) EXCEPT !.prevFh = r.prevFh])
lookupInnerOp(p, lookupLast) ==
    Made(IF lookupLast THEN "lookupInner true" ELSE "lookupInner false", p, <<>>,
         ResolveOut(ns, v, p, lookupLast))
FSInfoOp == Made("FSInfo", <<>>, <<>>, FSInfo(ns, v))
SetAttrByFhOp(fh) ==
    Made("SetAttrByFh", <<>>, <<>>, [SetAttrByFh(ns, fh) EXCEPT !.fh = fh])

\* ------------------------------------------------- namespaces and inputs
\* Symlink targets the server's symlinks are given.
Targets ==
    { <<"/", "d">>, <<"/", "s">>, <<"/", "t">>, <<"/", "u">>, <<"/", "x">> }

\* /d is a directory holding the file f and, as l, a symlink to it; s, t and
\* u are symlinks of the root, u to /s, s and t to the targets given.
LinkSpace(ts, tt) ==
    [o \in Obj |->
        CASE o = 1 -> DirObj(1, <<Ent(<<"d">>, 2), Ent(<<"s">>, 3), Ent(<<"t">>, 4),
                                  Ent(<<"u">>, 5)>>)
          [] o = 2 -> DirObj(1, <<Ent(<<"f">>, 6), Ent(<<"l">>, 7)>>)
          [] o = 3 -> LnkObj(ts)
          [] o = 4 -> LnkObj(tt)
          [] o = 5 -> LnkObj(<<"/", "s">>)
          [] o = 6 -> RegObj
          [] o = 7 -> LnkObj(<<"d", "/", "f">>)
          [] OTHER -> FreeObj]

\* The paths the resolver is given.
Paths ==
    { <<>>, <<"/">>, <<".">>, <<"/", "d", "/", "f">>, <<"/", "s">>,
      <<"s", "/", "f">>, <<"u">>, <<"/", "s", "/">>, <<"/", "d", "/", "l">>,
      <<"/", "x">> }

\* sameHandle not called yet.
NoCompare ==
    [called |-> FALSE, a |-> NilFh, b |-> NilFh, c |-> NilFh,
     ab |-> FALSE, ba |-> FALSE, bc |-> FALSE, ac |-> FALSE, aa |-> FALSE]

\* No listing in progress.
RdIdle ==
    [pc |-> "idle", fh |-> NilFh, cookie |-> 0, cookieVerf |-> 0, eof |-> FALSE,
     entries |-> <<>>, err |-> "nil", req |-> Rpc("none", NilFh, <<>>), nreq |-> 0,
     turn |-> FALSE]

\* A server that puts two entries on a page and supplies every handle.
PlainSrv == [page |-> 2, handles |-> TRUE]

\* The state NewTargetWithClient leaves, on a server whose namespace is n.
Constructed(n, s) ==
    /\ v = NewTargetWithClient(FhOf(RootObj), "auth", <<"/">>)
    /\ ns = n
    /\ last = NoCall
    /\ prev = NoCall
    /\ lastNs = n
    /\ prevNs = n
    /\ nops = 0
    /\ srv = s
    /\ rd = RdIdle
    /\ cmp = NoCompare

InitResolve == \E ts \in Targets, tt \in Targets : Constructed(LinkSpace(ts, tt), PlainSrv)

\* One more facade call of a behaviour that makes MaxOps of them.
Counted == nops < MaxOps /\ nops' = nops + 1

NextResolve ==
    \E p \in Paths :
        /\ Counted
        /\ \/ LookupOp(p)
           \/ GetAttrOp(p)
           \/ ReadlinkOp(p)

\* The resolver and the read-only methods on a server nobody changes,
\* MaxOps calls in a row.
Spec == InitResolve /\ [][NextResolve]_vars

\* ------------------------------------------- what a path names on the server
RECURSIVE Walk(_, _, _, _)
\* The object a list of components names from directory cur when every
\* symlink met is replaced by what its target names from the mount root:
\* [kind, obj], kind "cycle" when a symlink is met that is being followed
\* already (following holds those), "err" when a component names nothing.
Walk(n, cur, comps, following) ==
    IF comps = <<>> THEN [kind |-> "ok", obj |-> cur]
    ELSE IF Head(comps) = <<>> \/ Head(comps) = Dot
    THEN Walk(n, cur, Tail(comps), following)
    ELSE IF n[cur].type # "dir" \/ EntryOf(n, cur, Head(comps)) = 0
    THEN [kind |-> "err", obj |-> 0]
    ELSE LET o == EntryOf(n, cur, Head(comps))
         IN IF n[o].type # "lnk" THEN Walk(n, o, Tail(comps), following)
            ELSE IF o \in following THEN [kind |-> "cycle", obj |-> o]
            ELSE LET r == Walk(n, RootObj, Split(n[o].target), following \cup {o})
                 IN IF r.kind # "ok" THEN r
                    ELSE Walk(n, r.obj, Tail(comps), following)

Names(n, p) == Walk(n, RootObj, Split(p), {})

\* The object the last component of p is bound to in the directory the
\* earlier components name, 0 when there is none.
FinalEntry(n, p) ==
    LET w == Names(n, PathSplit(p)[1])
        name == PathSplit(p)[2]
    IN IF w.kind # "ok" \/ name = <<>> \/ name = Dot THEN 0
       ELSE IF n[w.obj].type # "dir" THEN 0
       ELSE EntryOf(n, w.obj, name)

Returned(c) == ~c.div
Sent(c, proc) == {i \in 1..Len(c.rpcs) : c.rpcs[i].proc = proc}

\* ------------------------------------------------------------------ C1
\* C1: whenever resolving the path of a Lookup meets a symlink cycle, the
\* Lookup returns, and returns the symlink-loop error (never a nil error).
C1_LoopIsReported ==
    (last.op = "Lookup" /\ Names(ns, last.p).kind = "cycle")
        => (Returned(last) /\ last.err = "recursed symlink")

\* ------------------------------------------------------------------ C2
\* C2: Readlink of a path whose last component is a symlink sends READLINK
\* on that symlink's own handle and returns its target string as it is.
C2_ReadlinkOfLink ==
    (last.op = "Readlink" /\ FinalEntry(ns, last.p) # 0
        /\ ns[FinalEntry(ns, last.p)].type = "lnk")
        => /\ Returned(last)
           /\ last.err = "nil"
           /\ last.str = ns[FinalEntry(ns, last.p)].target
           /\ last.rpcs[Len(last.rpcs)].proc = "READLINK"
           /\ last.rpcs[Len(last.rpcs)].fh = FhOf(FinalEntry(ns, last.p))

\* ------------------------------------------------------------------ C4
AttrAgree(a, b) ==
    /\ a.isNil = b.isNil
    /\ a.type = b.type
    /\ a.fileid = b.fileid
    /\ a.mode = b.mode
    /\ a.nlink = b.nlink
    /\ a.size = b.size

\* C4: when Lookup(path) succeeds, the attributes it returns are those of
\* the object its handle names: a GetAttr(path) that follows on the
\* unchanged server returns attributes agreeing on type, fileid, mode, nlink
\* and size.
C4_LookupAttrIsOfHandle ==
    (prev.op = "Lookup" /\ last.op = "GetAttr" /\ prev.p = last.p
        /\ Returned(prev) /\ prev.err = "nil")
        => /\ Returned(last)
           /\ last.err = "nil"
           /\ last.fh = prev.fh
           /\ AttrAgree(prev.fattr, last.fattr)

\* ------------------------------------------------------------------ C5
\* C5: when the path of a Lookup names an object through symlinks that form
\* no cycle (each target taken from the mount root), the Lookup succeeds
\* with the handle of that object: the end of the chain for a path ending
\* in a symlink, the entry inside the end of the chain for s1/x.
C5_ChainEnd ==
    (last.op = "Lookup" /\ Names(ns, last.p).kind = "ok")
        => /\ Returned(last)
           /\ last.err = "nil"
           /\ last.fh = FhOf(Names(ns, last.p).obj)

\* u -> /s -> /t -> /d: Lookup("u") has returned the handle of d.
C5_Witness ==
    /\ last.op = "Lookup" /\ last.p = <<"u">>
    /\ ns[3].target = <<"/", "t">> /\ ns[4].target = <<"/", "d">>
    /\ last.fh = FhOf(2)

\* ---------------------------------------------------------------- Rename
RenamePaths ==
    { <<"/">>, <<"/", "x">>, <<"/", "s">>, <<"/", "d", "/", "f">>,
      <<"/", "d", "/", "g">>, <<"/", "b">> }

InitRename ==
    \E ts \in {<<"/", "d">>, <<"/", "u">>, <<"/", "s">>} :
        Constructed(LinkSpace(ts, <<"/", "d">>), PlainSrv)

NextRename == \E p \in RenamePaths, q \in RenamePaths : Counted /\ RenameOp(p, q)

SpecRename == InitRename /\ [][NextRename]_vars

\* The path has nothing but empty and "." components: it is the mount root.
IsRootPath(p) == \A i \in 1..Len(Split(p)) : Split(p)[i] \in {<<>>, Dot}

RenameRootErrors ==
    {"fromName cannot be a root directory", "toName cannot be a root directory"}

\* ------------------------------------------------------------------ C3
\* C3: a Rename whose source or destination is the mount root itself fails
\* with the rename-root error and sends no request at all.
C3_RenameRootRefused ==
    (last.op = "Rename" /\ (IsRootPath(last.p) \/ IsRootPath(last.q)))
        => /\ Returned(last)
           /\ last.err \in RenameRootErrors
           /\ last.rpcs = <<>>

\* ------------------------------------------------------------------ C9
\* The bindings of a namespace: which name of which directory is which object.
Bindings(n) ==
    UNION {{<<d, n[d].ents[i].name, n[d].ents[i].id>> : i \in 1..Len(n[d].ents)} : d \in Obj}

\* The same names bound to the same objects, and the objects what they were.
SameNamespace(a, b) ==
    /\ Bindings(a) = Bindings(b)
    /\ \A o \in Obj : a[o].type = b[o].type /\ a[o].target = b[o].target

\* The last component of p is a name an entry can have.
ProperName(p) == PathSplit(p)[2] \notin {<<>>, Dot, DotDot}

\* The last two calls were Rename(a, b) and then Rename(b, a), a and b two
\* names of one directory, a bound and b not when the first was made.
RenamedThereAndBack ==
    /\ prev.op = "Rename" /\ last.op = "Rename"
    /\ last.p = prev.q /\ last.q = prev.p
    /\ PathSplit(prev.p)[1] = PathSplit(prev.q)[1]
    /\ FinalEntry(prevNs, prev.p) # 0
    /\ ProperName(prev.q)
    /\ FinalEntry(prevNs, prev.q) = 0

\* C9: Rename(a, b) followed by Rename(b, a), a bound and b not bound in
\* their common directory, both succeed and leave the namespace as it was.
C9_RenameThereAndBack ==
    RenamedThereAndBack
        => /\ Returned(prev) /\ prev.err = "nil"
           /\ Returned(last) /\ last.err = "nil"
           /\ SameNamespace(ns, prevNs)

\* -------------------------------------------------------------- RemoveAll
\* /r holds the directory a (with the file f in it), the file g and l, a
\* symlink to the directory /d, which holds the file h.
TreeSpace ==
    [o \in Obj |->
        CASE o = 1 -> DirObj(1, <<Ent(<<"r">>, 2), Ent(<<"d">>, 7)>>)
          [] o = 2 -> DirObj(1, <<Ent(<<"a">>, 3), Ent(<<"g">>, 5), Ent(<<"l">>, 6)>>)
          [] o = 3 -> DirObj(2, <<Ent(<<"f">>, 4)>>)
          [] o = 4 -> RegObj
          [] o = 5 -> RegObj
          [] o = 6 -> LnkObj(<<"/", "d">>)
          [] o = 7 -> DirObj(1, <<Ent(<<"h">>, 8)>>)
          [] o = 8 -> RegObj
          [] OTHER -> FreeObj]

RemovePaths ==
    { <<"/", "r">>, <<"/", "r", "/">>, <<"r", "/", "a">>, <<"/", "r", "/", "g">>,
      <<"/", "r", "/", "l">>, <<"/", "x">>, <<"/", "d">>, <<"/">>,
      <<"/", "d", "/", "n">> }

BuildPaths == { <<"/", "r", "/", "a", "/", "n">>, <<"/", "d", "/", "n">> }

InitRemoveAll ==
    \E k \in 1..3, h \in BOOLEAN :
        Constructed(TreeSpace, [page |-> k, handles |-> h])

NextRemoveAll ==
    \/ \E p \in RemovePaths : Counted /\ RemoveAllOp(p)
    \/ \E p \in BuildPaths : Counted /\ (MkdirOp(p) \/ CreateOp(p))

SpecRemoveAll == InitRemoveAll /\ [][NextRemoveAll]_vars

\* The last component of p that is a name: not empty and not ".".
LastName(p) ==
    LET S == {i \in 1..Len(Split(p)) : Split(p)[i] \notin {<<>>, Dot}}
    IN IF S = {} THEN <<>> ELSE Split(p)[CHOOSE i \in S : \A j \in S : j <= i]

\* p names a directory other than the root, by the directory's own name.
TreeAt(n, p) ==
    LET w == Names(n, p)
    IN /\ w.kind = "ok"
       /\ w.obj # RootObj
       /\ n[w.obj].type = "dir"
       /\ EntryOf(n, n[w.obj].parent, LastName(p)) = w.obj

RECURSIVE Below(_, _)
\* The objects of the tree rooted at directory d, d among them.
Below(n, d) ==
    {d} \cup UNION {IF n[n[d].ents[i].id].type = "dir" THEN Below(n, n[d].ents[i].id)
                    ELSE {n[d].ents[i].id} : i \in 1..Len(n[d].ents)}

\* ------------------------------------------------------------------ C8
\* C8: RemoveAll of a path that names a directory tree, on a server that
\* supplies the handles of the entries it lists, succeeds, and afterwards
\* nothing of the tree exists and Lookup(path) fails with NOENT.
C8_TreeIsRemoved ==
    (last.op = "RemoveAll" /\ srv.handles /\ TreeAt(lastNs, last.p))
        => /\ Returned(last)
           /\ last.err = "nil"
           /\ \A o \in Below(lastNs, Names(lastNs, last.p).obj) : ns[o].type = "free"
           /\ Lookup(ns, v, last.p).err = "NOENT"

\* ------------------------------------------------------ Create and Remove
CreatePaths ==
    { <<"x">>, <<"/", "x">>, <<"/", "d", "/", "g">>, <<"/", "s", "/", "g">>,
      <<"u", "/", "g">>, <<"/", "d", "/", "f">>, <<"/", "d", "/">>,
      <<"/", "d", "/", "x", "/">>, <<"/", "d", "/", "l">>, <<"/", "s">>,
      <<"/", "d", "/", "f", "/", "g">>, <<>> }

\* s points at the directory /d or at nothing; no symlink points at itself.
InitCreate ==
    \E ts \in {<<"/", "d">>, <<"/", "x">>} :
        Constructed(LinkSpace(ts, <<"/", "d">>), PlainSrv)

NextCreate == \E p \in CreatePaths : Counted /\ (CreateOp(p) \/ RemoveOp(p))

SpecCreate == InitCreate /\ [][NextCreate]_vars

\* The (handle, name) pairs of the requests proc of call c.
Addressed(c, proc) == {<<c.rpcs[i].fh, c.rpcs[i].name>> : i \in Sent(c, proc)}

\* The last two calls were Create(p) and then Remove(p).
CreatedThenRemoved ==
    /\ prev.op = "Create" /\ last.op = "Remove"
    /\ last.p = prev.p
    /\ Returned(prev) /\ Returned(last)

\* C10: Create(p) followed by Remove(p): the REMOVE goes to the handle and
\* name the CREATE went to, one is sent exactly when the other is, and when
\* the Create succeeded the Remove succeeds and Lookup(p) fails with NOENT.
C10_CreateThenRemove ==
    CreatedThenRemoved =>
        /\ Addressed(last, "REMOVE") = Addressed(prev, "CREATE")
        /\ Cardinality(Sent(last, "REMOVE")) = Cardinality(Sent(prev, "CREATE"))
        /\ prev.err = "nil" =>
              /\ last.err = "nil"
              /\ Lookup(ns, v, last.p).err = "NOENT"

\* A file created and removed below a symlink to a directory.
C10_Witness ==
    /\ CreatedThenRemoved
    /\ prev.p = <<"/", "s", "/", "g">>
    /\ prev.err = "nil"
    /\ last.err = "nil"
    /\ ns[3].target = <<"/", "d">>
    /\ FinalEntry(lastNs, prev.p) # 0

\* ------------------------------------------------- the pager, turn by turn
\* The most entries the server puts on one page, and the number of requests
\* of one listing that are counted.
MaxPage == 3
MaxReq == 6

\* The handles listings are asked of: the directories of TreeSpace and the
\* regular file /r/g.
ListedObjs == {1, 2, 3, 7, 5}

InitPager == \E h \in BOOLEAN : Constructed(TreeSpace, [page |-> MaxPage, handles |-> h])

\* ReadDirPlusByFh(fh) is called and reaches its loop.
RdStart ==
    /\ rd.pc = "idle"
    /\ \E o \in ListedObjs : rd' = ReadDirStart(FhOf(o))
    /\ UNCHANGED <<v, ns, last, prev, lastNs, prevNs, nops, srv, cmp>>

\* One turn of the loop: the request goes out and the server answers it
\* with a page of up to k entries of its choice, the last page with or
\* without eof.
RdTurn ==
    /\ rd.pc = "loop"
    /\ ~rd.eof
    /\ \E k \in 0..MaxPage, late \in BOOLEAN :
         rd' = [ReadDirPage(rd, ReadDirPlusReply(ns, rd.fh, rd.cookie, rd.cookieVerf,
                                                 k, late, srv.handles))
                  EXCEPT !.nreq = IF @ < MaxReq THEN @ + 1 ELSE @,
                         !.turn = ~@]
    /\ UNCHANGED <<v, ns, last, prev, lastNs, prevNs, nops, srv, cmp>>

\* The loop condition fails and ReadDirPlusByFh returns the entries.
RdReturn ==
    /\ rd.pc = "loop"
    /\ rd.eof
    /\ rd' = [rd EXCEPT !.pc = "done"]
    /\ UNCHANGED <<v, ns, last, prev, lastNs, prevNs, nops, srv, cmp>>

NextPager == RdStart \/ RdTurn \/ RdReturn

\* A listing on a server nobody changes; a call that can take a step takes
\* it: the goroutine runs and the server answers every request.
SpecPager == InitPager /\ [][NextPager]_vars /\ WF_vars(NextPager)

\* The entries one page holds when the server puts the whole listing on it.
SinglePage(n, fh, handles) ==
    ReadDirPlusReply(n, fh, 0, 0, MaxObj + 2, FALSE, handles).entries

\* C6: whatever pages the server cuts the listing into, the entries
\* ReadDirPlusByFh has gathered are the first of the single unbounded page,
\* in its order, up to the cookie, and the entries it returns are that whole
\* page, each entry once.
C6_PagesConcatenate ==
    /\ (rd.pc = "loop" /\ ns[ObjOf(rd.fh)].type = "dir") =>
          rd.entries = SubSeq(SinglePage(ns, rd.fh, srv.handles), 1, Len(rd.entries))
    /\ (rd.pc = "done" /\ rd.err = "nil") =>
          rd.entries = SinglePage(ns, rd.fh, srv.handles)

\* A listing of five entries returned after three or more pages.
C6_Witness ==
    /\ rd.pc = "done"
    /\ rd.err = "nil"
    /\ rd.nreq >= 3
    /\ Len(rd.entries) = 5

\* C7: a listing that has entered its loop returns: the server's cookies
\* never decrease and the echoed verifier is accepted.
C7_PagerTerminates == (rd.pc = "loop") ~> (rd.pc = "done")

\* ------------------------------------------------- every method in turn
TargetPaths ==
    { <<"/", "d", "/", "f">>, <<"/", "s">>, <<"/", "n">>, <<"/", "d">> }

RenameFrom == { <<"/", "d", "/", "f">>, <<"/", "s">> }
RenameTo == { <<"/", "n">>, <<"/", "d", "/", "g">> }

\* The handles SetAttrByFh is given: the file /d/f, none, and a free slot's.
SetAttrObjs == {6, 0, MaxObj}

InitTarget ==
    \E ts \in {<<"/", "d">>, <<"/", "x">>} :
        Constructed(LinkSpace(ts, <<"/", "d">>), PlainSrv)

NextTarget ==
    \/ \E p \in TargetPaths :
         Counted /\ (LookupOp(p) \/ GetAttrOp(p) \/ ReadlinkOp(p) \/ ReadDirPlusOp(p))
    \/ \E p \in TargetPaths :
         Counted /\ (CreateOp(p) \/ MkdirOp(p) \/ RemoveOp(p) \/ RmDirOp(p) \/ RemoveAllOp(p))
    \/ \E p \in RenameFrom, q \in RenameTo : Counted /\ RenameOp(p, q)
    \/ Counted /\ FSInfoOp
    \/ \E o \in SetAttrObjs : Counted /\ SetAttrByFhOp(FhOf(o))

SpecTarget == InitTarget /\ [][NextTarget]_vars

\* C11: no call of a method of the Target, failed or not, changes the
\* Target: its root handle, its credential, its mount path and its fsinfo
\* stay what NewTargetWithClient made them.
C11_TargetIsImmutable == [][v' = v]_vars

\* Two calls made, the first a Lookup that resolved to a handle other than
\* the root's, the second one that changed the server.
C11_Witness ==
    /\ prev.op = "Lookup" /\ prev.err = "nil"
    /\ ~prev.fh.isNil /\ prev.fh # v.fh
    /\ last.op \in {"Rename", "Create", "Remove"} /\ last.err = "nil"
    /\ ns # lastNs
    /\ v = NewTargetWithClient(FhOf(RootObj), "auth", <<"/">>)

\* ------------------------------------------------------------------ C13
\* C13: every Lookup returns, whatever the symlinks of the namespace: rings
\* of symlinks of any length are resolved with a bounded number of LOOKUP
\* and READLINK requests.
C13_LookupTerminates ==
    (last.op = "Lookup") =>
        /\ Returned(last)
        /\ Len(last.rpcs) <= 2 * MaxObj * (Len(last.p) + 1)

\* ------------------------------------------------------------------ C14
\* C14: when a component of the path, or of the target of a symlink met on
\* the way, names nothing, the LOOKUP that fails makes Lookup and GetAttr
\* fail; Lookup never returns a nil error with a nil handle.
C14_ErrorsPropagate ==
    (last.op \in {"Lookup", "GetAttr"} /\ Returned(last)) =>
        /\ (Names(ns, last.p).kind = "err") => last.err = "NOENT"
        /\ (last.op = "Lookup" /\ last.err = "nil") => ~last.fh.isNil

\* ------------------------------------------------------ the resolver alone
ResolvePaths ==
    { <<"g">>, <<"/", "d">>, <<"/", "d", "/">>, <<"/", "d", "/", "g">>,
      <<"/", "s", "/", "f">>, <<"u", "/", "f">>, <<"/", "d", "/", "l">>,
      <<"/", "s">>, <<"/", "s", "/">>, <<"/", "d", "/", "f", "/">>,
      <<"/", "x", "/", "g">>, <<"d", "/", "d">>, <<>> }

\* s points at the directory /d or at nothing.
InitInner ==
    \E ts \in {<<"/", "d">>, <<"/", "x">>} :
        Constructed(LinkSpace(ts, <<"/", "d">>), PlainSrv)

NextInner ==
    \E p \in ResolvePaths, lookupLast \in BOOLEAN : Counted /\ lookupInnerOp(p, lookupLast)

SpecInner == InitInner /\ [][NextInner]_vars

\* The last of the components strings.Split cuts p into.
LastComponent(p) == Split(p)[Len(Split(p))]

\* C15: with follow-last = false, when the components before the last name
\* an object, the resolver returns without error a nil fattr, a nil handle,
\* the last component and the handle of that object, and it has sent what
\* resolving the earlier components alone sends: nothing for the last one.
C15_LastNotLookedUp ==
    (/\ last.op = "lookupInner false"
     /\ Returned(last)
     /\ Names(ns, PathSplit(last.p)[1]).kind = "ok")
    => /\ last.err = "nil"
       /\ last.fattr = NilAttr
       /\ last.fh = NilFh
       /\ last.str = LastComponent(last.p)
       /\ last.prevFh = FhOf(Names(ns, PathSplit(last.p)[1]).obj)
       /\ last.rpcs = Lookup(ns, v, PathSplit(last.p)[1]).rpcs

\* The parent of /s/f resolved through the symlink s to the directory d,
\* and f, which exists, not looked up.
C15_Witness ==
    /\ last.op = "lookupInner false"
    /\ last.p = <<"/", "s", "/", "f">>
    /\ last.prevFh = FhOf(2)
    /\ last.str = <<"f">>
    /\ last.fh = NilFh
    /\ Cardinality(Sent(last, "READLINK")) = 1
    /\ Cardinality(Sent(last, "LOOKUP")) = 2

\* The last two calls resolved p and then p with a slash added, with the
\* same follow-last.
SlashAdded ==
    /\ prev.op \in {"lookupInner true", "lookupInner false"}
    /\ last.op = prev.op
    /\ last.p = Append(prev.p, "/")

\* C16: a path with a trailing slash is resolved as the path without it is:
\* the same requests, the same fattr, handle, final component and parent
\* handle.
C16_TrailingSlash ==
    SlashAdded =>
        /\ last.rpcs = prev.rpcs
        /\ last.err = prev.err
        /\ last.fattr = prev.fattr
        /\ last.fh = prev.fh
        /\ last.str = prev.str
        /\ last.prevFh = prev.prevFh

\* ------------------------------------------------------------------ C17
\* A step in which the loop of ReadDirPlusByFh sends a request.
RequestSent == rd.pc = "loop" /\ rd'.turn # rd.turn

\* The cookie of the last entry decoded so far, 0 when there is none.
LastSeenCookie(st) ==
    IF st.entries = <<>> THEN 0 ELSE st.entries[Len(st.entries)].cookie

\* C17: the first READDIRPLUS of a listing carries cookie 0 and verifier 0;
\* every later one carries the cookie of the last entry decoded so far and
\* the verifier of the reply before it; each asks for 512 and 4096 bytes.
C17_RequestsResume ==
    [][RequestSent =>
        /\ rd'.req.proc = "READDIRPLUS"
        /\ rd'.req.fh = rd.fh
        /\ rd'.req.cookie = LastSeenCookie(rd)
        /\ rd'.req.verf = IF rd.nreq = 0 THEN 0 ELSE DirVerf(ns, ObjOf(rd.fh))
        /\ rd'.req.dircount = 512
        /\ rd'.req.maxcount = 4096]_vars

\* A third or later request, answered with a page that holds no entry, sent
\* with the cookie of the entry decoded last and the server's verifier.
C17_Witness ==
    /\ rd.pc = "loop"
    /\ rd.nreq >= 3
    /\ rd.req.cookie = 3
    /\ rd.cookie = 3
    /\ rd.req.verf = DirVerf(ns, ObjOf(rd.fh))
    /\ rd.req.verf # 0

\* ----------------------------------------------- the pager and a failure
\* The request of a listing the server may fail is one of the first MaxFailAt.
MaxFailAt == 3

\* What v.call or the decoder returns for a page that fails: a status of the
\* server, an error of the transport, an error of xdr.Read.
PageErrors == {"BAD_COOKIE", "transport", "decode"}

\* The reply of a request that fails with error e.
FailedReply(e) == [err |-> e, verf |-> 0, entries |-> <<>>, eof |-> FALSE]

\* The server fails request number srv.failAt of a listing with srv.fault.
InitPagerFails ==
    \E h \in BOOLEAN, e \in PageErrors, k \in 1..MaxFailAt :
        Constructed(TreeSpace, [page |-> MaxPage, handles |-> h, fault |-> e, failAt |-> k])

\* One turn of the loop against that server.
RdTurnOrFail ==
    /\ rd.pc = "loop"
    /\ ~rd.eof
    /\ \E k \in 0..MaxPage, late \in BOOLEAN :
         rd' = [ReadDirPage(rd, IF rd.nreq + 1 = srv.failAt
                                THEN FailedReply(srv.fault)
                                ELSE ReadDirPlusReply(ns, rd.fh, rd.cookie, rd.cookieVerf,
                                                      k, late, srv.handles))
                  EXCEPT !.nreq = IF @ < MaxReq THEN @ + 1 ELSE @,
                         !.turn = ~@]
    /\ UNCHANGED <<v, ns, last, prev, lastNs, prevNs, nops, srv, cmp>>

NextPagerFails == RdStart \/ RdTurnOrFail \/ RdReturn

SpecPagerFails == InitPagerFails /\ [][NextPagerFails]_vars

\* C18: the request the server fails is the last of the listing, and the
\* call returns its error and no entry, those of earlier pages included.
C18_PageErrorEndsListing ==
    /\ rd.nreq <= srv.failAt
    /\ (rd.nreq = srv.failAt) =>
          /\ rd.pc = "done"
          /\ rd.err = srv.fault
          /\ rd.entries = <<>>

\* The third request fails with BAD_COOKIE after two pages with entries.
C18_Witness ==
    /\ rd.pc = "done"
    /\ rd.err = "BAD_COOKIE"
    /\ rd.nreq = 3
    /\ rd.req.cookie >= 2
    /\ rd.entries = <<>>

\* ------------------------------------------------------------------ C19
\* The requests of call c that are not the resolver's.
AfterResolving(c) == SelectSeq(c.rpcs, LAMBDA r : r.proc \notin {"LOOKUP", "READLINK"})

\* The status the server of namespace n gives the RMDIR request r.
RmDirStatus(n, r) == rmDir(n, r.fh, r.name).err

\* C19: the first request of RemoveAll after resolving the path is the
\* RMDIR of the last component; when it succeeds or fails with NOENT the
\* call returns success and sends nothing more; when it fails with NOTDIR
\* the call returns NOTDIR, sends nothing more and removes nothing.
C19_RemoveAllEasyPath ==
    (last.op = "RemoveAll" /\ Returned(last) /\ AfterResolving(last) # <<>>) =>
        /\ AfterResolving(last)[1].proc = "RMDIR"
        /\ AfterResolving(last)[1].name = LastComponent(last.p)
        /\ RmDirStatus(lastNs, AfterResolving(last)[1]) \in {"nil", "NOENT"} =>
              /\ last.err = "nil"
              /\ Len(AfterResolving(last)) = 1
        /\ RmDirStatus(lastNs, AfterResolving(last)[1]) = "NOTDIR" =>
              /\ last.err = "NOTDIR"
              /\ Len(AfterResolving(last)) = 1
              /\ ns = lastNs

\* RemoveAll of the regular file /r/g: one RMDIR, NOTDIR, the file is there.
C19_Witness ==
    /\ last.op = "RemoveAll"
    /\ last.p = <<"/", "r", "/", "g">>
    /\ last.err = "NOTDIR"
    /\ Len(AfterResolving(last)) = 1
    /\ FinalEntry(ns, last.p) # 0

\* RemoveAll of an empty directory the call before made.
EmptyDirRemoved ==
    /\ last.op = "RemoveAll" /\ prev.op = "Mkdir"
    /\ last.p = prev.p
    /\ prev.err = "nil" /\ last.err = "nil"
    /\ Len(AfterResolving(last)) = 1

\* ------------------------------------------------------------------ C20
\* The requests of call c that remove an entry a listing gave: its RMDIRs
\* and REMOVEs other than those for the path itself.
ListedRemovals(c) ==
    {i \in 1..Len(c.rpcs) :
        /\ c.rpcs[i].proc \in {"RMDIR", "REMOVE"}
        /\ <<c.rpcs[i].fh, c.rpcs[i].name>> #
              <<AfterResolving(c)[1].fh, AfterResolving(c)[1].name>>}

\* The object request r names, in namespace n.
Named(n, r) == EntryOf(n, ObjOf(r.fh), r.name)

\* Before request i of call c the directory o was listed.
Recursed(c, i, o) ==
    \E j \in 1..(i - 1) : c.rpcs[j].proc = "READDIRPLUS" /\ c.rpcs[j].fh = FhOf(o)

\* C20 as stated: an entry is removed with RMDIR, after the remover went
\* into it, exactly when it is a directory and its handle is present, and
\* with REMOVE in every other case; "." and ".." are left alone.
C20_RemovalByTypeAndHandle ==
    (last.op = "RemoveAll" /\ Returned(last)) =>
        \A i \in ListedRemovals(last) :
            /\ last.rpcs[i].name \notin {Dot, DotDot}
            /\ (last.rpcs[i].proc = "RMDIR") <=>
                  (lastNs[Named(lastNs, last.rpcs[i])].type = "dir" /\ srv.handles)
            /\ Recursed(last, i, Named(lastNs, last.rpcs[i])) <=>
                  (lastNs[Named(lastNs, last.rpcs[i])].type = "dir" /\ srv.handles)

\* C20 amended: an entry is removed with RMDIR exactly when it is a
\* directory, with REMOVE when it is not; the remover goes into it first
\* exactly when it is a directory whose handle is present.
C20_RemovalByType ==
    (last.op = "RemoveAll" /\ Returned(last)) =>
        \A i \in ListedRemovals(last) :
            /\ last.rpcs[i].name \notin {Dot, DotDot}
            /\ (last.rpcs[i].proc = "RMDIR") <=>
                  (lastNs[Named(lastNs, last.rpcs[i])].type = "dir")
            /\ Recursed(last, i, Named(lastNs, last.rpcs[i])) <=>
                  (lastNs[Named(lastNs, last.rpcs[i])].type = "dir" /\ srv.handles)

\* On a server that lists no handles, RemoveAll("/d") after Mkdir("/d/n"):
\* the file h goes with REMOVE, the empty directory n with RMDIR, not
\* listed, and d itself follows.
C20_Witness ==
    /\ last.op = "RemoveAll" /\ last.p = <<"/", "d">>
    /\ prev.op = "Mkdir" /\ prev.err = "nil"
    /\ ~srv.handles
    /\ last.err = "nil"
    /\ \E i \in ListedRemovals(last) :
          last.rpcs[i].proc = "RMDIR" /\ last.rpcs[i].name = <<"n">>
    /\ \E i \in ListedRemovals(last) :
          last.rpcs[i].proc = "REMOVE" /\ last.rpcs[i].name = <<"h">>

\* ------------------------------------------------------------------ C21
\* The server's reply to the removal request r in namespace n: [err, ns].
Served(n, r) ==
    IF r.proc = "RMDIR" THEN rmDir(n, r.fh, r.name) ELSE remove(n, r.fh, r.name)

\* The removal requests among rpcs, in the order of sending; the other
\* requests of RemoveAll change nothing on the server.
Removals(rpcs) == SelectSeq(rpcs, LAMBDA r : r.proc \in {"RMDIR", "REMOVE"})

\* The number of removal requests among the first i of rpcs.
Pos(rpcs, i) == Cardinality({j \in 1..i : rpcs[j].proc \in {"RMDIR", "REMOVE"}})

RECURSIVE NsAfter(_, _, _)
\* The namespace the server holds after the first i of the removal
\* requests rs, served in order from namespace n.
NsAfter(n, rs, i) ==
    IF i = 0 THEN n
    ELSE With(NsAfter(n, rs, i - 1), LAMBDA m : Served(m, rs[i]).ns)

\* The status the server gave the removal request i of call c, a call
\* made in namespace n.
StatusAt(n, c, i) ==
    Served(NsAfter(n, Removals(c.rpcs), Pos(c.rpcs, i) - 1), c.rpcs[i]).err

\* The place of the optimistic RMDIR among the requests of call c.
FirstRmDir(c) ==
    CHOOSE i \in Sent(c, "RMDIR") : \A j \in Sent(c, "RMDIR") : i <= j

\* The names call c sent removals for in the directory of handle fh, in
\* the order of sending.
RemovedIn(c, fh) ==
    With(SelectSeq(c.rpcs, LAMBDA r :
            /\ r.proc \in {"RMDIR", "REMOVE"}
            /\ r.fh = fh
            /\ <<r.fh, r.name>> # <<AfterResolving(c)[1].fh, AfterResolving(c)[1].name>>),
         LAMBDA rs : [k \in 1..Len(rs) |-> rs[k].name])

\* The names directory o holds in namespace n, in the server's order.
EntryNames(n, o) == [k \in 1..Len(n[o].ents) |-> n[o].ents[k].name]

\* Sequence a is the beginning of sequence b.
IsPrefix(a, b) == Len(a) <= Len(b) /\ \A k \in 1..Len(a) : a[k] = b[k]

\* C21: apart from the optimistic first RMDIR, an RMDIR for a directory
\* whose handle the call had (from the resolver, or from a listing that
\* carries handles) is sent only after a removal of every entry of that
\* directory was sent and succeeded; the removals sent within one
\* directory follow the server's listing, each one sent only after the
\* one before it succeeded.
C21_BottomUp ==
    (last.op = "RemoveAll" /\ Returned(last)) =>
        /\ \A i \in Sent(last, "RMDIR") :
              (/\ i > FirstRmDir(last)
               /\ Named(lastNs, last.rpcs[i]) # 0
               /\ srv.handles \/ Recursed(last, i, Named(lastNs, last.rpcs[i]))) =>
                  \A k \in 1..Len(lastNs[Named(lastNs, last.rpcs[i])].ents) :
                      \E j \in 1..(i - 1) :
                          /\ last.rpcs[j].proc \in {"RMDIR", "REMOVE"}
                          /\ last.rpcs[j].fh = FhOf(Named(lastNs, last.rpcs[i]))
                          /\ last.rpcs[j].name =
                                lastNs[Named(lastNs, last.rpcs[i])].ents[k].name
                          /\ StatusAt(lastNs, last, j) = "nil"
        /\ \A o \in Obj :
              lastNs[o].type = "dir" =>
                  IsPrefix(RemovedIn(last, FhOf(o)), EntryNames(lastNs, o))
        /\ \A i \in ListedRemovals(last), j \in ListedRemovals(last) :
              (i < j /\ last.rpcs[i].fh = last.rpcs[j].fh) =>
                  StatusAt(lastNs, last, i) = "nil"

\* RemoveAll("/r") on a server that lists handles: f goes before a, and a,
\* g and l, in the listed order, before r.
C21_Witness ==
    /\ last.op = "RemoveAll" /\ last.p = <<"/", "r">>
    /\ prev.op = "none"
    /\ srv.handles
    /\ last.err = "nil"
    /\ RemovedIn(last, FhOf(2)) = <<<<"a">>, <<"g">>, <<"l">>>>
    /\ RemovedIn(last, FhOf(3)) = <<<<"f">>>>
    /\ NsAfter(lastNs, Removals(last.rpcs), Len(Removals(last.rpcs))) = ns

\* ------------------------------------------------------------------ C22
\* The tree with directory o closed: the server lets nobody list it
\* (m = "read") or change its entries (m = "write").
DeniedSpace(o, m) == [TreeSpace EXCEPT ![o].deny = m]

\* The directories of the tree that may be closed: /r, /r/a and /d.
DeniedObjs == {2, 3, 7}

InitDenied ==
    \E o \in DeniedObjs, m \in {"read", "write"}, k \in 1..3, h \in BOOLEAN :
        Constructed(DeniedSpace(o, m), [page |-> k, handles |-> h])

SpecDenied == InitDenied /\ [][NextRemoveAll]_vars

\* The place of the first listing among the requests of call c, where the
\* recursion starts; past the end when the call lists nothing.
FirstList(c) ==
    IF Sent(c, "READDIRPLUS") = {} THEN Len(c.rpcs) + 1
    ELSE CHOOSE i \in Sent(c, "READDIRPLUS") : \A j \in Sent(c, "READDIRPLUS") : i <= j

\* The status the server s gave request i of call c, a listing or a
\* removal, when the call was made in namespace n.
ReplyAt(n, s, c, i) ==
    IF c.rpcs[i].proc = "READDIRPLUS"
    THEN ReadDirPlusReply(NsAfter(n, Removals(c.rpcs), Pos(c.rpcs, i)),
                          c.rpcs[i].fh, c.rpcs[i].cookie, c.rpcs[i].verf,
                          s.page, FALSE, s.handles).err
    ELSE StatusAt(n, c, i)

\* C22: when a request of the recursion of RemoveAll fails (a listing, the
\* removal of an entry, the removal of a sub-directory), no REMOVE and no
\* RMDIR is sent after it, the final RMDIR of the path included, and the
\* call returns the error of that request.
C22_FirstErrorAborts ==
    (last.op = "RemoveAll" /\ Returned(last)) =>
        \A i \in FirstList(last)..Len(last.rpcs) :
            ReplyAt(lastNs, srv, last, i) # "nil" =>
                /\ last.err = ReplyAt(lastNs, srv, last, i)
                /\ \A j \in (i + 1)..Len(last.rpcs) :
                      last.rpcs[j].proc \notin {"REMOVE", "RMDIR"}

\* RemoveAll("/r") where /r/a may not be changed: REMOVE(a, f) fails with
\* ACCES, is the last request, and g, l and r are still there.
C22_Witness ==
    /\ last.op = "RemoveAll" /\ last.p = <<"/", "r">>
    /\ lastNs[3].deny = "write"
    /\ last.err = "ACCES"
    /\ last.rpcs[Len(last.rpcs)].proc = "REMOVE"
    /\ last.rpcs[Len(last.rpcs)].name = <<"f">>
    /\ ns = lastNs

\* A listing inside the recursion fails: /r/a may not be listed.
ListingDenied ==
    /\ last.op = "RemoveAll" /\ last.p = <<"/", "r">>
    /\ lastNs[3].deny = "read"
    /\ last.err = "ACCES"
    /\ last.rpcs[Len(last.rpcs)].proc = "READDIRPLUS"
    /\ last.rpcs[Len(last.rpcs)].fh = FhOf(3)

\* The removal of a sub-directory fails after its entries are gone: /r
\* may not be changed.
SubDirDenied ==
    /\ last.op = "RemoveAll" /\ last.p = <<"/", "r">>
    /\ lastNs[2].deny = "write"
    /\ last.err = "ACCES"
    /\ last.rpcs[Len(last.rpcs)].proc = "RMDIR"
    /\ last.rpcs[Len(last.rpcs)].name = <<"a">>
    /\ ns[4].type = "free"

\* ------------------------------------------------------------------ C23
\* The directories of the tree rooted at directory d, and the entries in
\* it that are not directories.
DirsBelow(n, d) == {o \in Below(n, d) : n[o].type = "dir"}
FilesBelow(n, d) == {o \in Below(n, d) : n[o].type # "dir"}

\* N + D + 1 for the tree p names in namespace n.
RoundTrips(n, p) ==
    Cardinality(FilesBelow(n, Names(n, p).obj)) +
    Cardinality(DirsBelow(n, Names(n, p).obj)) + 1

\* C23 as stated: a successful RemoveAll of a tree of D directories with N
\* entries that are not directories sends N + D + 1 requests in all.
C23_RoundTripsInAll ==
    (last.op = "RemoveAll" /\ Returned(last) /\ last.err = "nil"
       /\ TreeAt(lastNs, last.p)) =>
        Len(last.rpcs) = RoundTrips(lastNs, last.p)

\* C23 amended: a successful RemoveAll of a tree that is not empty sends
\* N + D + 1 removal requests, N of them REMOVEs and D + 1 RMDIRs, the
\* optimistic one among them, and besides these at least a LOOKUP and a
\* READDIRPLUS; of an empty directory it sends the one RMDIR.
C23_RemovalRoundTrips ==
    (last.op = "RemoveAll" /\ Returned(last) /\ last.err = "nil"
       /\ TreeAt(lastNs, last.p)) =>
        IF lastNs[Names(lastNs, last.p).obj].ents = <<>>
        THEN Len(AfterResolving(last)) = 1
        ELSE /\ Len(Removals(last.rpcs)) = RoundTrips(lastNs, last.p)
             /\ Cardinality(Sent(last, "REMOVE")) =
                   Cardinality(FilesBelow(lastNs, Names(lastNs, last.p).obj))
             /\ Cardinality(Sent(last, "RMDIR")) =
                   Cardinality(DirsBelow(lastNs, Names(lastNs, last.p).obj)) + 1
             /\ Sent(last, "LOOKUP") # {}
             /\ Sent(last, "READDIRPLUS") # {}
             /\ Len(last.rpcs) >= RoundTrips(lastNs, last.p) + 2

\* RemoveAll("/r") after Mkdir("/r/a/n"): three directories and three
\* other entries, seven removals among at least twelve requests.
C23_Witness ==
    /\ last.op = "RemoveAll" /\ last.p = <<"/", "r">>
    /\ prev.op = "Mkdir" /\ prev.err = "nil" /\ prev.p = <<"/", "r", "/", "a", "/", "n">>
    /\ last.err = "nil"
    /\ RoundTrips(lastNs, last.p) = 7
    /\ Len(Removals(last.rpcs)) = 7
    /\ Len(last.rpcs) >= 12

\* ------------------------------------------------------------------ C24
\* The objects of the tree under the directory p names in namespace n,
\* symlinks in p followed as the resolver follows them; none when p names
\* no directory.
Subtree(n, p) ==
    IF Names(n, p).kind = "ok" /\ n[Names(n, p).obj].type = "dir"
    THEN Below(n, Names(n, p).obj)
    ELSE {}

\* Request r of call c is the RMDIR of the path itself: the parent's
\* handle with the last component.
OfPath(c, r) ==
    /\ r.proc = "RMDIR"
    /\ r.fh = AfterResolving(c)[1].fh
    /\ r.name = AfterResolving(c)[1].name
    /\ r.name = LastComponent(c.p)

\* C24: every REMOVE and RMDIR of RemoveAll(path) is either the RMDIR of
\* path itself or names, in a directory of the tree under the directory
\* path names, an entry of that tree; only what path names and the
\* directories of the tree under it are listed; a symlink found in the
\* tree goes with REMOVE and nothing is resolved once the listing has
\* begun; on the server nothing changes but objects of the tree and the
\* directory that holds path.
C24_StaysInside ==
    (last.op = "RemoveAll" /\ Returned(last)) =>
        /\ \A i \in Sent(last, "REMOVE") \cup Sent(last, "RMDIR") :
              \/ OfPath(last, last.rpcs[i])
              \/ /\ ObjOf(last.rpcs[i].fh) \in DirsBelow(lastNs, Names(lastNs, last.p).obj)
                 /\ ObjOf(last.rpcs[i].fh) \in Subtree(lastNs, last.p)
                 /\ Named(lastNs, last.rpcs[i]) \in
                       Subtree(lastNs, last.p) \ {Names(lastNs, last.p).obj}
                 /\ lastNs[Named(lastNs, last.rpcs[i])].type = "lnk" =>
                       last.rpcs[i].proc = "REMOVE"
        /\ \A i \in Sent(last, "READDIRPLUS") :
              \/ ObjOf(last.rpcs[i].fh) = Names(lastNs, last.p).obj
              \/ /\ ObjOf(last.rpcs[i].fh) \in Subtree(lastNs, last.p)
                 /\ lastNs[ObjOf(last.rpcs[i].fh)].type = "dir"
        /\ \A i \in Sent(last, "LOOKUP") \cup Sent(last, "READLINK") :
              i < FirstList(last)
        /\ \A o \in Obj :
              ns[o] # lastNs[o] =>
                  \/ o \in Subtree(lastNs, last.p)
                  \/ /\ AfterResolving(last) # <<>>
                     /\ o = ObjOf(AfterResolving(last)[1].fh)

\* RemoveAll("/r") succeeds while /d may not be changed: the symlink l to
\* /d went with REMOVE(r, l), /d was not listed and holds h as before.
C24_Witness ==
    /\ last.op = "RemoveAll" /\ last.p = <<"/", "r">>
    /\ prev.op = "none"
    /\ lastNs[7].deny = "write"
    /\ srv.handles
    /\ last.err = "nil"
    /\ \E i \in Sent(last, "REMOVE") :
          last.rpcs[i].fh = FhOf(2) /\ last.rpcs[i].name = <<"l">>
    /\ \A i \in Sent(last, "READDIRPLUS") : last.rpcs[i].fh # FhOf(7)
    /\ ns[7] = lastNs[7]
    /\ ns[8] = lastNs[8]
    /\ ns[6].type = "free"

\* RemoveAll("/r/l"), l a symlink to /d, when /r may not be changed: the
\* optimistic RMDIR fails with ACCES, l is followed and /d is emptied.
LinkPathFollowed ==
    /\ last.op = "RemoveAll" /\ last.p = <<"/", "r", "/", "l">>
    /\ lastNs[2].deny = "write"
    /\ ns[8].type = "free"

\* ------------------------------------------------------------- sameHandle
\* Handles are byte strings of up to MaxLen bytes, each up to MaxByte.
MaxLen == 2
MaxByte == 1

RECURSIVE ByteStrings(_)
\* The byte strings of length k.
ByteStrings(k) ==
    IF k = 0 THEN {<<>>}
    ELSE {Append(b, x) : b \in ByteStrings(k - 1), x \in 0..MaxByte}

\* A nil slice, and the slices of every length from 0 to MaxLen.
Handles ==
    {NilFh} \cup {[isNil |-> FALSE, bytes |-> b] :
                     b \in UNION {ByteStrings(k) : k \in 0..MaxLen}}

InitSameHandle == Constructed(LinkSpace(<<"/", "d">>, <<"/", "d">>), PlainSrv)

\* sameHandle is called on the pairs of three handles, once.
SameHandleOp ==
    /\ ~cmp.called
    /\ \E a \in Handles, b \in Handles, c \in Handles :
         cmp' = [called |-> TRUE, a |-> a, b |-> b, c |-> c,
                 ab |-> sameHandle(a, b), ba |-> sameHandle(b, a),
                 bc |-> sameHandle(b, c), ac |-> sameHandle(a, c),
                 aa |-> sameHandle(a, a)]
    /\ UNCHANGED <<v, ns, last, prev, lastNs, prevNs, nops, srv, rd>>

NextSameHandle == SameHandleOp

SpecSameHandle == InitSameHandle /\ [][NextSameHandle]_vars

\* C12: sameHandle(a, b) is true exactly when a and b are the same string
\* of bytes (a nil slice is the empty string); it is reflexive, symmetric
\* and transitive.
C12_SameHandleIsEquality ==
    cmp.called =>
        /\ cmp.ab = (cmp.a.bytes = cmp.b.bytes)
        /\ cmp.aa
        /\ cmp.ab = cmp.ba
        /\ (cmp.ab /\ cmp.bc) => cmp.ac

\* Two handles of the same length that differ in the last byte only, the
\* second compared with itself as well.
C12_Witness ==
    /\ cmp.called
    /\ Len(cmp.a.bytes) = 2 /\ Len(cmp.b.bytes) = 2
    /\ cmp.a.bytes[1] = cmp.b.bytes[1] /\ cmp.a.bytes[2] # cmp.b.bytes[2]
    /\ ~cmp.ab
    /\ cmp.b = cmp.c
    /\ cmp.bc

====
